---- MODULE Spec2Model ----
(***************************************************************************)
(* ifnotnow: named outline documents ("contexts") kept as one YAML file    *)
(* per context.  The model covers the outline data model (ListV1,          *)
(* ListItem, Goal, CheckTimebox, AttentionEvent, Timespan), the YAML       *)
(* round trip done by serde_yaml, the file operations init_timeline,       *)
(* run_add and run_now, the in-memory ListMap, the Larch update stub and   *)
(* the control flow of main.                                               *)
(*                                                                         *)
(* A document is a sequence of tokens <<kind, payload>>, the event stream  *)
(* of the YAML text; a payload is a sequence of strings (one chunk for a   *)
(* text, one entry per decimal digit for a number).  File creation and     *)
(* writing are taken to succeed; the only file error modelled is a missing *)
(* file at open.                                                           *)
(***************************************************************************)
EXTENDS Integers, Sequences, FiniteSets, TLC

(* ---------------------------- bounds ---------------------------------- *)
MaxClock == 2
MaxItems == 2

(* ------------------------ program constants --------------------------- *)
IFNOTNOW_EXTENSION == ".inn.yaml"
DefaultBudget == 3600

Names == {"a", "starter"}
GoalTexts == {"g1"}

(* Option<T>: None is the empty sequence, Some(v) the one-element one. *)
None == <<>>
Some(v) == <<v>>
IsSome(o) == Len(o) = 1

(* ---------------------------- data model ------------------------------ *)
Timespan_new(duration_s) == [duration_s |-> duration_s]

ListV1_new(name) == [name |-> name, items |-> <<>>]

ListV1_filename(name) == <<name, IFNOTNOW_EXTENSION>>

Goal_new(label, done) == [label |-> label, done |-> done]

AttentionEvent(kind, ts) == [kind |-> kind, ts |-> ts]

AttentionWaitingFor(ts, reason) == [kind |-> "WaitingFor", ts |-> ts, reason |-> reason]

(* A constructor that forgets the Created entry. *)
CheckTimebox_new_no_history(label, done, utcnow) ==
    [label   |-> label,
     done    |-> done,
     history |-> <<>>,
     accrued |-> Timespan_new(0),
     budget  |-> Timespan_new(DefaultBudget)]

CheckTimebox_new(label, done, utcnow) ==
    [label   |-> label,
     done    |-> done,
     history |-> <<AttentionEvent("Created", utcnow)>>,
     accrued |-> Timespan_new(0),
     budget  |-> Timespan_new(DefaultBudget)]

Heading(txt) == [tag |-> "Heading", txt |-> txt]
Entry(txt)   == [tag |-> "Entry", txt |-> txt]
Note(txt)    == [tag |-> "Note", txt |-> txt]
GoalItem(g)  == [tag |-> "Goal", goal |-> g]
Timebox(tb)  == [tag |-> "Timebox", tb |-> tb]
Sublist(l)   == [tag |-> "Sublist", sub |-> l]

starter_timeline(utcnow) ==
    [name  |-> "Your Starter Timeline",
     items |-> << Heading("Welcome to Your Starter Timeline"),
                  Note("This is an example timeline that shows the kinds of items you can capture in them."),
                  GoalItem(Goal_new("A TODO Item", FALSE)),
                  GoalItem(Goal_new("A done TODO Item", TRUE)),
                  GoalItem(Goal_new("A TODO Item", FALSE)),
                  Timebox(CheckTimebox_new("A Second TODO Item", Some(utcnow), utcnow)),
                  Sublist(ListV1_new("nested list")) >>]

(* ------------------- serde_yaml: value -> document -------------------- *)
Digit == <<"0", "1", "2", "3", "4", "5", "6", "7", "8", "9">>

RECURSIVE ToDigits(_)
ToDigits(n) ==
    IF n < 10 THEN <<Digit[n + 1]>>
    ELSE ToDigits(n \div 10) \o <<Digit[(n % 10) + 1]>>

DigitVal(c) == IF \E k \in 1..10 : Digit[k] = c
               THEN (CHOOSE k \in 1..10 : Digit[k] = c) - 1
               ELSE -1

RECURSIVE FromDigits(_)
FromDigits(p) ==
    IF Len(p) = 0 \/ \E k \in 1..Len(p) : DigitVal(p[k]) < 0 THEN -1
    ELSE IF Len(p) = 1 THEN DigitVal(p[1])
    ELSE FromDigits(SubSeq(p, 1, Len(p) - 1)) * 10 + DigitVal(p[Len(p)])

MapStart == <<"{", <<>>>>
MapEnd   == <<"}", <<>>>>
SeqStart == <<"[", <<>>>>
SeqEnd   == <<"]", <<>>>>
Null     == <<"null", <<>>>>
Key(k)   == <<"key", <<k>>>>
Str(s)   == <<"str", <<s>>>>
UInt(n)  == <<"int", ToDigits(n)>>
Bool(b)  == <<"bool", <<IF b THEN "true" ELSE "false">>>>
DateTime(t) == <<"str", ToDigits(t)>>

ser_Timespan(ts) == <<MapStart, Key("duration_s"), UInt(ts.duration_s), MapEnd>>

ser_AttentionEvent(e) ==
    IF e.kind = "WaitingFor"
    THEN <<MapStart, Key(e.kind), SeqStart, DateTime(e.ts), Str(e.reason), SeqEnd, MapEnd>>
    ELSE <<MapStart, Key(e.kind), DateTime(e.ts), MapEnd>>

RECURSIVE ser_history(_)
ser_history(h) ==
    IF h = <<>> THEN <<>> ELSE ser_AttentionEvent(Head(h)) \o ser_history(Tail(h))

(* A serializer that writes every goal as not done. *)
ser_Goal_done_lost(g) ==
    <<MapStart, Key("label"), Str(g.label), Key("done"), Bool(FALSE), MapEnd>>

ser_Goal(g) == <<MapStart, Key("label"), Str(g.label), Key("done"), Bool(g.done), MapEnd>>

ser_CheckTimebox(tb) ==
    <<MapStart, Key("label"), Str(tb.label),
      Key("done"), IF IsSome(tb.done) THEN DateTime(tb.done[1]) ELSE Null,
      Key("history"), SeqStart>> \o ser_history(tb.history) \o
    <<SeqEnd, Key("accrued")>> \o ser_Timespan(tb.accrued) \o
    <<Key("budget")>> \o ser_Timespan(tb.budget) \o <<MapEnd>>

RECURSIVE ser_ListV1(_), ser_items(_), ser_ListItem(_)
ser_ListItem(x) ==
    <<MapStart, Key(x.tag)>> \o
    (CASE x.tag = "Goal"    -> ser_Goal(x.goal)
       [] x.tag = "Timebox" -> ser_CheckTimebox(x.tb)
       [] x.tag = "Sublist" -> ser_ListV1(x.sub)
       [] OTHER             -> <<Str(x.txt)>>) \o
    <<MapEnd>>

ser_items(xs) ==
    IF xs = <<>> THEN <<>> ELSE ser_ListItem(Head(xs)) \o ser_items(Tail(xs))

ser_ListV1(l) ==
    <<MapStart, Key("name"), Str(l.name), Key("items"), SeqStart>> \o
    ser_items(l.items) \o <<SeqEnd, MapEnd>>

to_string(l) == ser_ListV1(l)

(* ------------------- serde_yaml: document -> value -------------------- *)
(* A parser result is [ok, v, i]: the value read and the position after   *)
(* it; Fail is a decode error.  Struct fields are read in declaration     *)
(* order, the order in which the serializer writes them.                  *)
Fail == [ok |-> FALSE]
Done(v, i) == [ok |-> TRUE, v |-> v, i |-> i]
At(d, i, tok) == i <= Len(d) /\ d[i] = tok
Kind(d, i, k) == i <= Len(d) /\ d[i][1] = k

(* Then(r, F): continue with F on the result r of the step before.        *)
Then(r, F(_)) == F(r)

(* Expect(b, r): the result r when the tokens b were all in place. *)
Expect(b, r) == IF b THEN r ELSE Fail

de_String(d, i) ==
    IF Kind(d, i, "str") /\ Len(d[i][2]) = 1 THEN Done(d[i][2][1], i + 1) ELSE Fail

de_number(d, i, kind) ==
    IF Kind(d, i, kind)
    THEN Then(FromDigits(d[i][2]), LAMBDA n : IF n >= 0 THEN Done(n, i + 1) ELSE Fail)
    ELSE Fail

de_DateTime(d, i) == de_number(d, i, "str")

de_u64(d, i) == de_number(d, i, "int")

de_bool(d, i) ==
    IF At(d, i, <<"bool", <<"true">>>>) THEN Done(TRUE, i + 1)
    ELSE IF At(d, i, <<"bool", <<"false">>>>) THEN Done(FALSE, i + 1)
    ELSE Fail

de_OptionDateTime(d, i) ==
    IF At(d, i, Null) THEN Done(None, i + 1)
    ELSE Then(de_DateTime(d, i), LAMBDA t : IF t.ok THEN Done(Some(t.v), t.i) ELSE Fail)

de_Timespan(d, i) ==
    IF At(d, i, MapStart) /\ At(d, i + 1, Key("duration_s"))
    THEN Then(de_u64(d, i + 2), LAMBDA n :
            Expect(n.ok /\ At(d, n.i, MapEnd), Done(Timespan_new(n.v), n.i + 1)))
    ELSE Fail

EventKinds == {"Created", "Started", "Paused", "Abandoned", "Finished"}

de_AttentionEvent(d, i) ==
    IF ~(At(d, i, MapStart) /\ Kind(d, i + 1, "key")) THEN Fail
    ELSE IF d[i + 1][2][1] \in EventKinds
    THEN Then(de_DateTime(d, i + 2), LAMBDA t :
            Expect(t.ok /\ At(d, t.i, MapEnd),
                   Done(AttentionEvent(d[i + 1][2][1], t.v), t.i + 1)))
    ELSE IF d[i + 1][2][1] = "WaitingFor" /\ At(d, i + 2, SeqStart)
    THEN Then(de_DateTime(d, i + 3), LAMBDA t :
            IF ~t.ok THEN Fail
            ELSE Then(de_String(d, t.i), LAMBDA r :
                    Expect(r.ok /\ At(d, r.i, SeqEnd) /\ At(d, r.i + 1, MapEnd),
                           Done(AttentionWaitingFor(t.v, r.v), r.i + 2))))
    ELSE Fail

RECURSIVE de_history(_, _)
de_history(d, i) ==
    IF At(d, i, SeqEnd) THEN Done(<<>>, i + 1)
    ELSE Then(de_AttentionEvent(d, i), LAMBDA e :
            IF ~e.ok THEN Fail
            ELSE Then(de_history(d, e.i), LAMBDA rest :
                    Expect(rest.ok, Done(<<e.v>> \o rest.v, rest.i))))

de_Goal(d, i) ==
    IF ~(At(d, i, MapStart) /\ At(d, i + 1, Key("label"))) THEN Fail
    ELSE Then(de_String(d, i + 2), LAMBDA l :
    IF ~(l.ok /\ At(d, l.i, Key("done"))) THEN Fail
    ELSE Then(de_bool(d, l.i + 1), LAMBDA b :
    Expect(b.ok /\ At(d, b.i, MapEnd),
           Done([label |-> l.v, done |-> b.v], b.i + 1))))

de_CheckTimebox(d, i) ==
    IF ~(At(d, i, MapStart) /\ At(d, i + 1, Key("label"))) THEN Fail
    ELSE Then(de_String(d, i + 2), LAMBDA l :
    IF ~(l.ok /\ At(d, l.i, Key("done"))) THEN Fail
    ELSE Then(de_OptionDateTime(d, l.i + 1), LAMBDA dn :
    IF ~(dn.ok /\ At(d, dn.i, Key("history")) /\ At(d, dn.i + 1, SeqStart)) THEN Fail
    ELSE Then(de_history(d, dn.i + 2), LAMBDA h :
    IF ~(h.ok /\ At(d, h.i, Key("accrued"))) THEN Fail
    ELSE Then(de_Timespan(d, h.i + 1), LAMBDA a :
    IF ~(a.ok /\ At(d, a.i, Key("budget"))) THEN Fail
    ELSE Then(de_Timespan(d, a.i + 1), LAMBDA b :
    Expect(b.ok /\ At(d, b.i, MapEnd),
           Done([label |-> l.v, done |-> dn.v, history |-> h.v,
                 accrued |-> a.v, budget |-> b.v], b.i + 1)))))))

TextTags == {"Heading", "Entry", "Note"}

RECURSIVE de_ListV1(_, _), de_items(_, _), de_ListItem(_, _)
de_ListItem(d, i) ==
    IF ~(At(d, i, MapStart) /\ Kind(d, i + 1, "key")) THEN Fail
    ELSE Then(d[i + 1][2][1], LAMBDA k :
         Then(CASE k \in TextTags -> de_String(d, i + 2)
                [] k = "Goal"     -> de_Goal(d, i + 2)
                [] k = "Timebox"  -> de_CheckTimebox(d, i + 2)
                [] k = "Sublist"  -> de_ListV1(d, i + 2)
                [] OTHER          -> Fail,
              LAMBDA r :
                IF ~(r.ok /\ At(d, r.i, MapEnd)) THEN Fail
                ELSE Done(CASE k \in TextTags -> [tag |-> k, txt |-> r.v]
                            [] k = "Goal"     -> GoalItem(r.v)
                            [] k = "Timebox"  -> Timebox(r.v)
                            [] k = "Sublist"  -> Sublist(r.v),
                          r.i + 1)))

de_items(d, i) ==
    IF At(d, i, SeqEnd) THEN Done(<<>>, i + 1)
    ELSE Then(de_ListItem(d, i), LAMBDA x :
            IF ~x.ok THEN Fail
            ELSE Then(de_items(d, x.i), LAMBDA rest :
                    Expect(rest.ok, Done(<<x.v>> \o rest.v, rest.i))))

de_ListV1(d, i) ==
    IF ~(At(d, i, MapStart) /\ At(d, i + 1, Key("name"))) THEN Fail
    ELSE Then(de_String(d, i + 2), LAMBDA n :
         IF ~(n.ok /\ At(d, n.i, Key("items")) /\ At(d, n.i + 1, SeqStart)) THEN Fail
         ELSE Then(de_items(d, n.i + 2), LAMBDA xs :
                 Expect(xs.ok /\ At(d, xs.i, MapEnd),
                        Done([name |-> n.v, items |-> xs.v], xs.i + 1))))

(* Result<T, E>: Ok(v) or Err(e). *)
Ok(v)  == [ok |-> TRUE, v |-> v]
Err(e) == [ok |-> FALSE, err |-> e]

from_reader(d) ==
    Then(de_ListV1(d, 1), LAMBDA r :
        IF r.ok /\ r.i = Len(d) + 1 THEN Ok(r.v) ELSE Err("Yaml"))

(* --------------------------- file operations -------------------------- *)
(* The backing medium d maps a filename to the document stored under it.  *)
exists(d, filename) == filename \in DOMAIN d

File_write(d, filename, doc) ==
    [f \in DOMAIN d \cup {filename} |-> IF f = filename THEN doc ELSE d[f]]

ListV1_load(d, name) ==
    IF exists(d, ListV1_filename(name))
    THEN from_reader(d[ListV1_filename(name)])
    ELSE Err("File")

(* What a call leaves behind: its result, the medium, the value it held   *)
(* in memory and what it printed.                                         *)
Outcome(res, d, tl, out) == [res |-> res, disk |-> d, timeline |-> tl, printed |-> out]

init_timeline(name, d, utcnow) ==
    LET tl       == IF name = "starter" THEN starter_timeline(utcnow) ELSE ListV1_new(name)
        timeline_yaml == to_string(tl)
        filename == <<name, IFNOTNOW_EXTENSION>>
    IN IF exists(d, filename)
       THEN Outcome(Ok(<<>>), d, Some(tl), << <<"ERROR: ">> \o filename \o <<" exists, not overwriting">> >>)
       ELSE Outcome(Ok(<<>>), File_write(d, filename, timeline_yaml), Some(tl), <<>>)

Panic(e) == [ok |-> FALSE, panic |-> e]

add_goal(timeline, goal) ==
    IF IsSome(goal)
    THEN [timeline EXCEPT !.items = Append(@, GoalItem(Goal_new(goal[1], FALSE)))]
    ELSE timeline

save(name, timeline, d) ==
    Outcome(Ok(<<>>), File_write(d, ListV1_filename(name), to_string(timeline)),
            Some(timeline), <<>>)

(* An add that puts the new goal in front of the loaded items. *)
run_add_prepend(name, goal, d) ==
    Then(ListV1_load(d, name), LAMBDA loaded :
        IF loaded.ok
        THEN save(name,
                  IF IsSome(goal)
                  THEN [loaded.v EXCEPT !.items =
                           <<GoalItem(Goal_new(goal[1], FALSE))>> \o @]
                  ELSE loaded.v,
                  d)
        ELSE Outcome(Panic(loaded.err), d, None, <<>>))

run_add(name, goal, d) ==
    Then(ListV1_load(d, name), LAMBDA loaded :
        IF loaded.ok
        THEN save(name, add_goal(loaded.v, goal), d)
        ELSE Outcome(Panic(loaded.err), d, None, <<>>))

Display_Timespan(ts) == ToDigits(ts.duration_s) \o <<"s">>

RECURSIVE render_list(_, _), render_items(_, _)
render_items(xs, indent) ==
    IF xs = <<>> THEN <<>>
    ELSE LET x == Head(xs)
             line == CASE x.tag = "Heading" -> << <<indent, "## ", x.txt>> >>
                       [] x.tag = "Note"    -> << <<indent, "> ", x.txt>> >>
                       [] x.tag = "Goal"    ->
                            << <<indent, " - [", IF x.goal.done THEN "x" ELSE " ", "] ">> \o
                               (IF x.goal.done THEN <<"~~", x.goal.label, "~~">>
                                ELSE <<x.goal.label>>) >>
                       [] x.tag = "Timebox" ->
                            << <<indent, " - [", "?", "] ", x.tb.label, " (..">> \o
                               Display_Timespan(x.tb.accrued) \o <<" <=">> \o
                               Display_Timespan(x.tb.budget) \o <<")">> >>
                       [] x.tag = "Entry"   -> << <<indent, " - ", x.txt>> >>
                       [] x.tag = "Sublist" -> render_list(x.sub, "   ")
         IN line \o render_items(Tail(xs), indent)

render_list(list, indent) == render_items(list.items, indent)

run_now(name, d) ==
    Then(ListV1_load(d, name), LAMBDA loaded :
        IF loaded.ok
        THEN Outcome(Ok(<<>>), d, Some(loaded.v),
                     << <<"# ", loaded.v.name>> >> \o render_list(loaded.v, ""))
        ELSE Outcome(Panic(loaded.err), d, None, <<>>))

(* ------------------------------ ListMap ------------------------------- *)
ListMap_new == [n \in {} |-> ListV1_new(n)]

ListMap_add(m, listname) ==
    [n \in DOMAIN m \cup {listname} |-> IF n = listname THEN ListV1_new(listname) ELSE m[n]]

ListMap_drop(m, listname) == [n \in DOMAIN m \ {listname} |-> m[n]]

(* ------------------------- commands and main -------------------------- *)
Event_new(list, span, utcnow) ==
    [list |-> list, span |-> Some(span), begins |-> None, ends |-> None,
     created_ts |-> utcnow]

(* The command main builds from the parsed arguments. *)
main_cmd(matches, utcnow) ==
    CASE matches.sub = "init" -> [cmd |-> "Init", name |-> matches.name]
      [] matches.sub = "add"  ->
            [cmd |-> "Mark", name |-> matches.name,
             event |-> Event_new(ListV1_new(matches.name), Timespan_new(3600), utcnow)]
      [] matches.sub = "help" -> [cmd |-> "Help"]
      [] OTHER                -> [cmd |-> "Noop"]

(* The loop of main over the command queue: Init runs init_timeline, any  *)
(* other command prints "not implemented".                                *)
RECURSIVE main_loop(_, _, _)
main_loop(queue, d, utcnow) ==
    IF queue = <<>> THEN Outcome(Ok(<<>>), d, None, <<>>)
    ELSE LET cmd  == Head(queue)
             step == IF cmd.cmd = "Init"
                     THEN init_timeline(cmd.name, d, utcnow)
                     ELSE Outcome(Ok(<<>>), d, None, << <<cmd.cmd, " not implelmented">> >>)
             rest == main_loop(Tail(queue), step.disk, utcnow)
         IN Outcome(rest.res, rest.disk, rest.timeline, step.printed \o rest.printed)

(* main: the command is built and dropped; the queue it iterates over is  *)
(* the empty vector it was initialised with.                              *)
main(matches, d, utcnow) ==
    LET cmd_queue == <<>>
        cmd       == main_cmd(matches, utcnow)
    IN main_loop(cmd_queue, d, utcnow)

(* contexts.rs: the Larch scaffolding. *)
ContextModel == <<>>
ContextMod_init(flags) == ContextModel
ContextMod_update(cxc, m) == Ok(<<m, None>>)
contexts_run(cxc) == Ok(<<>>)

(* ------------------------------- state -------------------------------- *)
VARIABLES
    disk,      \* the backing medium: filename -> document
    lmap,      \* the ListMap of the in-memory Model
    model,     \* the Larch ContextModel
    now,       \* the wall clock read by Utc::now()
    last,      \* the call made last: operation, arguments, result
    timeline,  \* Option: the ListV1 the last call held in memory
    printed    \* the lines the last call printed

vars == <<disk, lmap, model, now, last, timeline, printed>>

(* Documents found on the medium at start: written beforehand by a user   *)
(* or another tool, in the form the serializer writes.                    *)
RunningBox ==
    [label |-> "t", done |-> None,
     history |-> <<AttentionEvent("Created", 0), AttentionEvent("Started", 1)>>,
     accrued |-> Timespan_new(0), budget |-> Timespan_new(DefaultBudget)]

FinishedBox ==
    [label |-> "t", done |-> Some(1),
     history |-> <<AttentionEvent("Created", 0), AttentionEvent("Started", 0),
                   AttentionEvent("Finished", 1)>>,
     accrued |-> Timespan_new(1), budget |-> Timespan_new(DefaultBudget)]

WaitingBox ==
    [label |-> "w", done |-> None,
     history |-> <<AttentionEvent("Created", 0), AttentionEvent("Started", 0),
                   AttentionWaitingFor(1, "r")>>,
     accrued |-> Timespan_new(1), budget |-> Timespan_new(DefaultBudget)]

SeedContexts ==
    { [name |-> "a", items |-> <<Timebox(RunningBox)>>],
      [name |-> "a", items |-> <<Timebox(FinishedBox)>>],
      [name |-> "a", items |-> <<Entry("e"),
                                 Sublist([name |-> "s",
                                          items |-> <<GoalItem(Goal_new("g0", TRUE)),
                                                      Timebox(WaitingBox)>>])>>] }

Malformed == <<MapStart, Key("name")>>

SeedDisks ==
    {[f \in {} |-> <<>>]}
    \cup {[f \in {ListV1_filename("a")} |-> to_string(c)] : c \in SeedContexts}
    \cup {[f \in {ListV1_filename("a")} |-> Malformed]}

Argv ==
    {[sub |-> "init", name |-> n] : n \in Names}
    \cup {[sub |-> "add", name |-> n, goal |-> g] :
             n \in Names, g \in {None} \cup {Some(t) : t \in GoalTexts}}
    \cup {[sub |-> "now", name |-> n] : n \in Names}
    \cup {[sub |-> "help"], [sub |-> ""]}

Msgs ==
    {[cmd |-> "List"]}
    \cup {[cmd |-> "Mark", name |-> n,
           event |-> Event_new(ListV1_new(n), Timespan_new(3600), now)] : n \in Names}

Init ==
    /\ disk \in SeedDisks
    /\ lmap = ListMap_new
    /\ model = ContextMod_init(<<>>)
    /\ now = 1
    /\ last = [op |-> "start"]
    /\ timeline = None
    /\ printed = <<>>

(* A call with outcome o leaves o's files, value and output behind and    *)
(* is recorded, with its result, as the call made last.                   *)
Leaves(call, o) ==
    /\ disk' = o.disk
    /\ timeline' = o.timeline
    /\ printed' = o.printed
    /\ last' = [res |-> o.res] @@ call
    /\ UNCHANGED <<lmap, model, now>>

InitTimeline ==
    \E name \in Names :
        Leaves([op |-> "init_timeline", name |-> name], init_timeline(name, disk, now))

AddLeaves(call, o) ==
    /\ (IsSome(call.goal) /\ IsSome(o.timeline)) => Len(o.timeline[1].items) <= MaxItems
    /\ Leaves(call, o)

RunAdd ==
    \E name \in Names, goal \in {None} \cup {Some(t) : t \in GoalTexts} :
        AddLeaves([op |-> "run_add", name |-> name, goal |-> goal],
                  run_add(name, goal, disk))

RunNow ==
    \E name \in Names :
        Leaves([op |-> "run_now", name |-> name], run_now(name, disk))

Main ==
    \E matches \in Argv :
        Leaves([op |-> "main", matches |-> matches], main(matches, disk, now))

ListMapAdd ==
    \E listname \in Names :
        /\ lmap' = ListMap_add(lmap, listname)
        /\ last' = [op |-> "ListMap_add", name |-> listname]
        /\ timeline' = None
        /\ printed' = <<>>
        /\ UNCHANGED <<disk, model, now>>

ListMapDrop ==
    \E listname \in Names :
        /\ lmap' = ListMap_drop(lmap, listname)
        /\ last' = [op |-> "ListMap_drop", name |-> listname]
        /\ timeline' = None
        /\ printed' = <<>>
        /\ UNCHANGED <<disk, model, now>>

Update ==
    \E cxc \in Msgs :
        /\ model' = ContextMod_update(cxc, model).v[1]
        /\ last' = [op |-> "update", msg |-> cxc, res |-> ContextMod_update(cxc, model)]
        /\ timeline' = None
        /\ printed' = <<>>
        /\ UNCHANGED <<disk, lmap, now>>

Run ==
    \E cxc \in Msgs :
        /\ last' = [op |-> "run", msg |-> cxc, res |-> contexts_run(cxc)]
        /\ timeline' = None
        /\ printed' = <<>>
        /\ UNCHANGED <<disk, lmap, model, now>>

Tick ==
    /\ now < MaxClock
    /\ now' = now + 1
    /\ last' = [op |-> "tick"]
    /\ timeline' = None
    /\ printed' = <<>>
    /\ UNCHANGED <<disk, lmap, model>>

Next ==
    \/ InitTimeline
    \/ RunAdd
    \/ RunNow
    \/ Main
    \/ ListMapAdd
    \/ ListMapDrop
    \/ Update
    \/ Run
    \/ Tick

Spec == Init /\ [][Next]_vars

(* ------------------------- helpers for the claims --------------------- *)
(* The Timeboxes of an outline, depth first, in document order. *)
RECURSIVE Boxes(_), BoxesOfItems(_)
BoxesOfItems(xs) ==
    IF xs = <<>> THEN <<>>
    ELSE (CASE Head(xs).tag = "Timebox" -> <<Head(xs).tb>>
            [] Head(xs).tag = "Sublist" -> Boxes(Head(xs).sub)
            [] OTHER                    -> <<>>) \o BoxesOfItems(Tail(xs))

Boxes(l) == BoxesOfItems(l.items)

Range(q) == {q[i] : i \in 1..Len(q)}

(* The Timeboxes stored under a filename; none when it does not decode. *)
BoxesOfLoaded(r) == IF r.ok THEN Boxes(r.v) ELSE <<>>

BoxesAt(d, f) == BoxesOfLoaded(from_reader(d[f]))

(* Every Timebox in existence: on the medium and in memory. *)
AllBoxes ==
    UNION {Range(BoxesAt(disk, f)) : f \in DOMAIN disk}
    \cup (IF IsSome(timeline) THEN Range(Boxes(timeline[1])) ELSE {})

Terminal(tb) == \E e \in Range(tb.history) : e.kind \in {"Finished", "Abandoned"}

IsPrefix(p, q) == Len(p) <= Len(q) /\ SubSeq(q, 1, Len(p)) = p

HasRes == "res" \in DOMAIN last

(* The call made last wrote its in-memory outline to the medium. *)
Wrote ==
    /\ last.op \in {"init_timeline", "run_add"}
    /\ last.res.ok
    /\ IsSome(timeline)
    /\ printed = <<>>

(* ------------------------------- claims ------------------------------- *)

(* C1: creating a context whose document already exists fails with an    *)
(* error (AlreadyExists), not success, and leaves the medium as it was.   *)
C1_CreateExistingFails ==
    [][(last'.op = "init_timeline" /\ exists(disk, ListV1_filename(last'.name)))
         => (~last'.res.ok /\ disk' = disk)]_vars

(* C2: a Mark against a context holding a Timebox whose history contains  *)
(* Finished or Abandoned is rejected with an error and changes nothing.   *)
C2_TerminalRejected ==
    [][(/\ last'.op = "update"
        /\ last'.msg.cmd = "Mark"
        /\ ListV1_load(disk, last'.msg.name).ok
        /\ \E tb \in Range(Boxes(ListV1_load(disk, last'.msg.name).v)) : Terminal(tb))
         => (~last'.res.ok /\ disk' = disk /\ model' = model)]_vars

(* C3: an invocation of the binary carries its subcommand through to the  *)
(* store: init leaves a document for the name, add leaves the goal        *)
(* appended, now prints the rendered document.                            *)
C3_InvocationDispatched ==
    [][last'.op = "main" =>
        LET m == last'.matches IN
        /\ (m.sub = "init" /\ ~exists(disk, ListV1_filename(m.name)))
              => exists(disk', ListV1_filename(m.name))
        /\ (m.sub = "add" /\ IsSome(m.goal) /\ ListV1_load(disk, m.name).ok)
              => /\ ListV1_load(disk', m.name).ok
                 /\ ListV1_load(disk', m.name).v.items =
                        Append(ListV1_load(disk, m.name).v.items,
                               GoalItem([label |-> m.goal[1], done |-> FALSE]))
        /\ (m.sub = "now" /\ ListV1_load(disk, m.name).ok)
              => printed' = << <<"# ", ListV1_load(disk, m.name).v.name>> >> \o
                            render_list(ListV1_load(disk, m.name).v, "")]_vars

(* C4: no call ends in a panic; a failed load is returned as an error.    *)
C4_NoPanic == HasRes => (last.res.ok \/ "panic" \notin DOMAIN last.res)

RECURSIVE Accrual(_, _)
Accrual(h, t) ==
    IF h = <<>> THEN 0
    ELSE IF Head(h).kind # "Started" THEN Accrual(Tail(h), t)
    ELSE IF Len(h) = 1 THEN t - h[1].ts
    ELSE IF h[2].kind \in {"Paused", "WaitingFor", "Finished", "Abandoned"}
    THEN (h[2].ts - h[1].ts) + Accrual(Tail(Tail(h)), t)
    ELSE Accrual(Tail(h), t)

(* C6: the accrued value of every Timebox that is rendered equals the sum *)
(* of its closed Started intervals plus the open one up to now.           *)
C6_AccrualCorrect ==
    (last.op = "run_now" /\ IsSome(timeline)) =>
        \A tb \in Range(Boxes(timeline[1])) :
            tb.accrued.duration_s = Accrual(tb.history, now)

(* The shape every history has to keep. *)
WellShaped(h) ==
    /\ h # <<>>
    /\ h[1].kind = "Created"
    /\ \A i \in 2..Len(h) : h[i].kind # "Created"

(* Timebox by Timebox, the histories after extend the histories before. *)
OnlyAppended(before, after) ==
    /\ Len(before) <= Len(after)
    /\ \A i \in 1..Len(before) : IsPrefix(before[i].history, after[i].history)

Extended(before, goal) ==
    [name  |-> before.name,
     items |-> IF IsSome(goal)
               THEN before.items \o <<GoalItem([label |-> goal[1], done |-> FALSE])>>
               ELSE before.items]

Appended(call, old, new) ==
    old.ok /\ new = Ok(Extended(old.v, call.goal))

(* C8: a successful add rewrites the document to the loaded items, in     *)
(* order, followed by the new Goal (not done) when a goal text is given;  *)
(* the name and every other document stay as they were.                   *)
C8_AddAppends ==
    [][(last'.op = "run_add" /\ last'.res.ok) =>
        /\ DOMAIN disk' = DOMAIN disk
        /\ \A f \in DOMAIN disk \ {ListV1_filename(last'.name)} : disk'[f] = disk[f]
        /\ Appended(last', ListV1_load(disk, last'.name),
                    ListV1_load(disk', last'.name))]_vars

C8_Witness ==
    /\ last.op = "run_add"
    /\ last.res.ok
    /\ IsSome(last.goal)
    /\ Len(timeline[1].items) >= 2
    /\ timeline[1].items[1].tag # "Goal"

(* Timebox by Timebox, a done that was set is still set to the same instant. *)
DoneKept(before, after) ==
    \A i \in 1..Len(before) :
        IsSome(before[i].done) =>
            (i <= Len(after) /\ after[i].done = before[i].done)

(* C9: a Timebox's done is set exactly when its history has a Finished    *)
(* event, then equals that event's timestamp, and is never cleared.       *)
C9_DoneMatchesHistory ==
    /\ [](\A tb \in AllBoxes :
            /\ IsSome(tb.done) <=> \E e \in Range(tb.history) : e.kind = "Finished"
            /\ \A e \in Range(tb.history) :
                  (e.kind = "Finished" /\ IsSome(tb.done)) => tb.done[1] = e.ts)
    /\ [][\/ disk' = disk
          \/ \A f \in DOMAIN disk \cap DOMAIN disk' :
                DoneKept(BoxesAt(disk, f), BoxesAt(disk', f))]_vars

(* C10: the context addressed by a name carries that name, in the         *)
(* in-memory map and in the document stored under filename(name).         *)
C10_KeyNameAgree ==
    /\ \A n \in DOMAIN lmap : lmap[n].name = n
    /\ \A n \in Names :
          ListV1_load(disk, n).ok => ListV1_load(disk, n).v.name = n

====
